---- MODULE Spec2Model ----
(***************************************************************************)
(* Model of scripts/touch_bridge.py: a persistent bridge that reads one    *)
(* JSON touch command per line from stdin, sends it as HID events over a   *)
(* gRPC channel to idb_companion, and answers each command with one JSON   *)
(* line on stdout.                                                         *)
(*                                                                         *)
(* The coroutine main() suspends at two awaits: reader.readline() and      *)
(* stub.hid(msgs).  Each action below is the code that runs between two    *)
(* suspension points.                                                      *)
(***************************************************************************)
EXTENDS Integers, Sequences, FiniteSets, TLC

\* Bounds of the model.
MaxLines == 2
MaxCoord == 1

VARIABLES
    environ,    \* os.environ restricted to IDB_COMPANION_SOCKET (a function)
    pc,         \* position of main(): start, readline, hid, returned, raised
    channel,    \* the grpclib Channel: none, open, closed
    stdout,     \* the lines written (and flushed) by respond(), as the dicts
    line,       \* the raw line last returned by reader.readline()
    msgs,       \* the events of the call to stub.hid() last started
    ncalls,     \* number of calls to stub.hid() started so far
    result,     \* how the call last started ended: none (no call yet),
                \* pending, returned, raised
    nread,      \* number of lines consumed from stdin so far
    nonEmpty,   \* line numbers (1..nread) of the consumed non-empty lines
    respFor,    \* for each element of stdout, the line number it answers
                \* (0 for a record written before the loop)
    callFor,    \* the number of the line whose events msgs holds (0: none)
    repeated    \* whether the line last consumed equals the one before it

vars == <<environ, pc, channel, stdout, line, msgs, ncalls, result, nread,
          nonEmpty, respFor, callFor, repeated>>

-----------------------------------------------------------------------------
\* JSON values as json.loads returns them.  A number is kept as its literal.

None == [tag |-> "null", s |-> ""]
Num(lit) == [tag |-> "num", s |-> lit]
Str(s) == [tag |-> "str", s |-> s]

\* str(v) as an f-string renders a value.
PyStr(v) == IF v.tag = "null" THEN "None" ELSE v.s

Coords == {ToString(n) : n \in 0..MaxCoord}
Durations == {"0.5"}

\* The default of cmd.get("duration", 0.3).
DefaultDuration == "0.3"

SOCKET_VAR == "IDB_COMPANION_SOCKET"

-----------------------------------------------------------------------------
\* Input lines.  A raw line is the bytes readline() returned:
\*   enc    "utf8" when bytes.decode() succeeds, "invalid" when it raises
\*          UnicodeDecodeError;
\*   text   the decoded characters (where the content matters: whitespace);
\*   wf     whether the stripped text is well-formed JSON;
\*   exc    what json.loads does on the text: "" (returns),
\*          "JSONDecodeError", or "RecursionError" (nesting deeper than the
\*          interpreter's recursion limit, in well-formed text or not);
\*   diag   str() of the JSONDecodeError;
\*   pytype the Python type of the value json.loads returns;
\*   d      the items of that value when it is a dict.

RawLine(enc, text, wf, exc, diag, pytype, d) ==
    [enc |-> enc, text |-> text, wf |-> wf, exc |-> exc, diag |-> diag,
     pytype |-> pytype, d |-> d]

\* A line holding a byte sequence that is not UTF-8, such as b"\xff\n".
Undecodable == RawLine("invalid", "", FALSE, "", "", "", <<>>)

BlankLines ==
    {RawLine("utf8", t, FALSE, "JSONDecodeError",
             "Expecting value: line 2 column 1 (char " \o ToString(Len(t)) \o ")",
             "", <<>>) : t \in {"\n", " \t\n"}}

MalformedLines ==
    {RawLine("utf8", "not json\n", FALSE, "JSONDecodeError",
             "Expecting value: line 1 column 1 (char 0)", "", <<>>)}

\* "[[[[ ..." nested beyond the recursion limit and never closed.
OverDeepLine == RawLine("utf8", "[[[[\n", FALSE, "RecursionError", "", "", <<>>)

\* "[[[[ ... ]]]]" nested beyond the recursion limit, brackets balanced.
OverDeepArray == RawLine("utf8", "[[[[]]]]\n", TRUE, "RecursionError", "", "", <<>>)

NonObjectLines ==
    {RawLine("utf8", "[1]\n", TRUE, "", "", "list", <<>>),
     RawLine("utf8", "7\n", TRUE, "", "", "int", <<>>),
     RawLine("utf8", "\"tap\"\n", TRUE, "", "", "str", <<>>),
     RawLine("utf8", "true\n", TRUE, "", "", "bool", <<>>),
     RawLine("utf8", "null\n", TRUE, "", "", "NoneType", <<>>)}

ObjectLine(d) == RawLine("utf8", "{}\n", TRUE, "", "", "dict", d)

PressTypes == {"tap", "down", "move", "up"}
KnownTypes == PressTypes \cup {"swipe"}

PressCmd(t, x, y) == [type |-> Str(t), x |-> Num(x), y |-> Num(y)]

SwipeCmd(x1, y1, x2, y2) ==
    [type |-> Str("swipe"), x1 |-> Num(x1), y1 |-> Num(y1),
     x2 |-> Num(x2), y2 |-> Num(y2)]

WithKey(d, k, v) == [j \in DOMAIN d \cup {k} |-> IF j = k THEN v ELSE d[j]]
WithoutKey(d, k) == [j \in DOMAIN d \ {k} |-> d[j]]

ValidCmds ==
    {PressCmd("tap", x, y) : x \in Coords, y \in Coords}
    \cup {PressCmd(t, x, "1") : t \in {"down", "move", "up"}, x \in Coords}
    \cup {SwipeCmd(x1, "0", "1", y2) : x1 \in Coords, y2 \in Coords}
    \cup {WithKey(SwipeCmd("1", y1, "0", "1"), "duration", Num(du)) :
              y1 \in Coords, du \in Durations}

\* One canonical command of each recognized type, used to derive the
\* commands with a missing or wrongly typed field.
BaseCmds ==
    {PressCmd(t, "0", "1") : t \in PressTypes} \cup {SwipeCmd("0", "1", "1", "0")}

MissingFieldCmds ==
    {WithoutKey(c, k) : c \in BaseCmds, k \in {"x", "y", "x1", "y1", "x2", "y2"}}
    \ BaseCmds

\* The keys the dispatch of a command of c's type reads.
ReadKeys(c) ==
    IF c["type"] = Str("swipe") THEN {"x1", "y1", "x2", "y2", "duration"}
    ELSE {"x", "y"}

WrongTypeCmds ==
    UNION {{WithKey(c, k, IF k \in {"x", "y1", "duration"} THEN None ELSE Str("abc")) :
                k \in ReadKeys(c)} :
               c \in {PressCmd("tap", "0", "1"), PressCmd("up", "0", "1"),
                      SwipeCmd("0", "1", "1", "0")}}

\* Valid commands that carry a field the bridge never reads.
ExtraFieldCmds ==
    {WithKey(PressCmd("tap", "0", "1"), "x1", Str("abc")),
     WithKey(PressCmd("move", "1", "0"), "duration", None)}

UnknownTypeCmds ==
    {WithKey([x |-> Num("1"), y |-> Num("1")], "type", v) :
         v \in {Str("poke"), Num("5"), None}}
    \cup {[x |-> Num("1"), y |-> Num("1")], <<>>}

Lines ==
    {Undecodable, OverDeepLine, OverDeepArray} \cup BlankLines \cup MalformedLines
    \cup NonObjectLines
    \cup {ObjectLine(d) : d \in ValidCmds \cup ExtraFieldCmds
                                 \cup MissingFieldCmds
                                 \cup WrongTypeCmds \cup UnknownTypeCmds}

RemoteErrors == {"Connection refused"}

-----------------------------------------------------------------------------
\* Library operations used by main().

DOWN == 0
UP == 1

Whitespace == {" ", "\t", "\n", "\r"}

RECURSIVE lstrip(_)
lstrip(s) ==
    IF Len(s) > 0 /\ SubSeq(s, 1, 1) \in Whitespace
    THEN lstrip(SubSeq(s, 2, Len(s))) ELSE s

RECURSIVE rstrip(_)
rstrip(s) ==
    IF Len(s) > 0 /\ SubSeq(s, Len(s), Len(s)) \in Whitespace
    THEN rstrip(SubSeq(s, 1, Len(s) - 1)) ELSE s

\* strip() left out: the line is used as decoded.
strip_NoOp(s) == s

\* str.strip()
strip(s) == rstrip(lstrip(s))

\* bytes.decode(): raises UnicodeDecodeError unless the bytes are UTF-8.
decode_raises(raw) == raw.enc # "utf8"
decode(raw) == raw.text

\* json.loads() on the stripped text of raw.
json_loads(raw) ==
    [exc |-> raw.exc, diag |-> raw.diag, pytype |-> raw.pytype, d |-> raw.d]

\* os.environ.get(name)
environ_get(env, name) == IF name \in DOMAIN env THEN Str(env[name]) ELSE None

\* Python truth value of a string or None.
Truthy(v) == v.tag # "null" /\ v.s # ""

\* dict.get(k, default)
cmd_get(d, k, default) == IF k \in DOMAIN d THEN d[k] ELSE default

IsNum(v) == v.tag = "num"

\* str() of the exceptions raised inside the second try block.
KeyErrorText(k) == "'" \o k \o "'"
AttributeErrorText(pytype) == "'" \o pytype \o "' object has no attribute 'get'"
\* The wording is that of the protobuf runtime.
TypeErrorText(v) ==
    "must be real number, not " \o (IF v.tag = "null" THEN "NoneType" ELSE "str")

make_press(x, y, direction) ==
    [kind |-> "press", x |-> x.s, y |-> y.s, direction |-> direction]

make_swipe(x1, y1, x2, y2, duration) ==
    [kind |-> "swipe", x1 |-> x1.s, y1 |-> y1.s, x2 |-> x2.s, y2 |-> y2.s,
     duration |-> duration.s]

-----------------------------------------------------------------------------
\* The body of the second try block up to the await (lines 73-94): what the
\* dispatch of a parsed value does before it suspends or leaves the block.
\*   kind "raise":   an exception is raised and caught at line 96;
\*   kind "unknown": the else branch, line 93;
\*   kind "call":    stub.hid(msgs) is awaited.

Raise(text) == [kind |-> "raise", error |-> text, msgs |-> <<>>]
Call(m) == [kind |-> "call", error |-> "", msgs |-> m]
Unknown(t) == [kind |-> "unknown", error |-> "unknown type: " \o PyStr(t), msgs |-> <<>>]

\* First key of the sequence keys that d lacks, 0 if none: cmd[k] raises
\* KeyError for it.
FirstMissing(d, keys) ==
    LET I == {i \in 1..Len(keys) : keys[i] \notin DOMAIN d}
    IN  IF I = {} THEN 0 ELSE CHOOSE i \in I : \A j \in I : i <= j

\* First value of the sequence vals that a protobuf double field rejects.
FirstNonNum(vals) ==
    LET I == {i \in 1..Len(vals) : ~IsNum(vals[i])}
    IN  IF I = {} THEN 0 ELSE CHOOSE i \in I : \A j \in I : i <= j

\* A missing coordinate defaults to 0 (cmd.get("x", 0)) instead of raising.
PressMsgs_DefaultZero(d, dirs) ==
    LET x == cmd_get(d, "x", Num("0"))
        y == cmd_get(d, "y", Num("0"))
        vals == <<x, y>>
        b == FirstNonNum(vals)
    IN  IF b # 0 THEN Raise(TypeErrorText(vals[b]))
        ELSE Call([i \in 1..Len(dirs) |-> make_press(x, y, dirs[i])])

\* msgs = [make_press(cmd["x"], cmd["y"], dir) for each dir of dirs]
PressMsgs(d, dirs) ==
    LET keys == <<"x", "y">>
        m == FirstMissing(d, keys)
    IN  IF m # 0 THEN Raise(KeyErrorText(keys[m]))
        ELSE LET vals == <<d["x"], d["y"]>>
                 b == FirstNonNum(vals)
             IN  IF b # 0 THEN Raise(TypeErrorText(vals[b]))
                 ELSE Call([i \in 1..Len(dirs) |->
                                make_press(d["x"], d["y"], dirs[i])])

\* The supplied duration is ignored: the default is always sent.
SwipeMsgs_AlwaysDefault(d) ==
    LET keys == <<"x1", "y1", "x2", "y2">>
        m == FirstMissing(d, keys)
    IN  IF m # 0 THEN Raise(KeyErrorText(keys[m]))
        ELSE LET duration == Num(DefaultDuration)
                 vals == <<d["x1"], d["y1"], d["x2"], d["y2"], duration>>
                 b == FirstNonNum(vals)
             IN  IF b # 0 THEN Raise(TypeErrorText(vals[b]))
                 ELSE Call(<<make_swipe(d["x1"], d["y1"], d["x2"], d["y2"],
                                        duration)>>)

\* msgs = [make_swipe(cmd["x1"], cmd["y1"], cmd["x2"], cmd["y2"],
\*                    cmd.get("duration", 0.3))]
SwipeMsgs(d) ==
    LET keys == <<"x1", "y1", "x2", "y2">>
        m == FirstMissing(d, keys)
    IN  IF m # 0 THEN Raise(KeyErrorText(keys[m]))
        ELSE LET duration == cmd_get(d, "duration", Num(DefaultDuration))
                 vals == <<d["x1"], d["y1"], d["x2"], d["y2"], duration>>
                 b == FirstNonNum(vals)
             IN  IF b # 0 THEN Raise(TypeErrorText(vals[b]))
                 ELSE Call(<<make_swipe(d["x1"], d["y1"], d["x2"], d["y2"],
                                        duration)>>)

\* A tap lowered to UP then DOWN.
Dispatch_TapUpDown(cmd) ==
    IF cmd.pytype # "dict" THEN Raise(AttributeErrorText(cmd.pytype))
    ELSE LET t == cmd_get(cmd.d, "type", None)
         IN  IF t = Str("tap") THEN PressMsgs(cmd.d, <<UP, DOWN>>)
             ELSE IF t = Str("swipe") THEN SwipeMsgs(cmd.d)
             ELSE IF t = Str("down") THEN PressMsgs(cmd.d, <<DOWN>>)
             ELSE IF t = Str("move") THEN PressMsgs(cmd.d, <<DOWN>>)
             ELSE IF t = Str("up") THEN PressMsgs(cmd.d, <<UP>>)
             ELSE Unknown(t)

\* A move lowered to an UP press.
Dispatch_MoveUp(cmd) ==
    IF cmd.pytype # "dict" THEN Raise(AttributeErrorText(cmd.pytype))
    ELSE LET t == cmd_get(cmd.d, "type", None)
         IN  IF t = Str("tap") THEN PressMsgs(cmd.d, <<DOWN, UP>>)
             ELSE IF t = Str("swipe") THEN SwipeMsgs(cmd.d)
             ELSE IF t = Str("down") THEN PressMsgs(cmd.d, <<DOWN>>)
             ELSE IF t = Str("move") THEN PressMsgs(cmd.d, <<UP>>)
             ELSE IF t = Str("up") THEN PressMsgs(cmd.d, <<UP>>)
             ELSE Unknown(t)

\* A record without a type handled as a tap (cmd.get("type", "tap")).
Dispatch_DefaultTap(cmd) ==
    IF cmd.pytype # "dict" THEN Raise(AttributeErrorText(cmd.pytype))
    ELSE LET t == cmd_get(cmd.d, "type", Str("tap"))
         IN  IF t = Str("tap") THEN PressMsgs(cmd.d, <<DOWN, UP>>)
             ELSE IF t = Str("swipe") THEN SwipeMsgs(cmd.d)
             ELSE IF t = Str("down") THEN PressMsgs(cmd.d, <<DOWN>>)
             ELSE IF t = Str("move") THEN PressMsgs(cmd.d, <<DOWN>>)
             ELSE IF t = Str("up") THEN PressMsgs(cmd.d, <<UP>>)
             ELSE Unknown(t)

\* After a failed call every command is refused without being sent.
Dispatch_AfterFailure(cmd) ==
    IF result = "raised" THEN Raise("previous command failed")
    ELSE IF cmd.pytype # "dict" THEN Raise(AttributeErrorText(cmd.pytype))
    ELSE LET t == cmd_get(cmd.d, "type", None)
         IN  IF t = Str("tap") THEN PressMsgs(cmd.d, <<DOWN, UP>>)
             ELSE IF t = Str("swipe") THEN SwipeMsgs(cmd.d)
             ELSE IF t = Str("down") THEN PressMsgs(cmd.d, <<DOWN>>)
             ELSE IF t = Str("move") THEN PressMsgs(cmd.d, <<DOWN>>)
             ELSE IF t = Str("up") THEN PressMsgs(cmd.d, <<UP>>)
             ELSE Unknown(t)

Dispatch(cmd) ==
    IF cmd.pytype # "dict" THEN Raise(AttributeErrorText(cmd.pytype))
    ELSE LET t == cmd_get(cmd.d, "type", None)
         IN  IF t = Str("tap") THEN PressMsgs(cmd.d, <<DOWN, UP>>)
             ELSE IF t = Str("swipe") THEN SwipeMsgs(cmd.d)
             ELSE IF t = Str("down") THEN PressMsgs(cmd.d, <<DOWN>>)
             ELSE IF t = Str("move") THEN PressMsgs(cmd.d, <<DOWN>>)
             ELSE IF t = Str("up") THEN PressMsgs(cmd.d, <<UP>>)
             ELSE Unknown(t)

-----------------------------------------------------------------------------
\* Responses

\* Every success record carries the status of the ready record.
Ok_WithStatus == [ok |-> TRUE, status |-> "ready"]

Ok == [ok |-> TRUE]
Ready == [ok |-> TRUE, status |-> "ready"]
Failure(text) == [ok |-> FALSE, error |-> text]

\* respond(obj): one line written to stdout and flushed.  n is the number
\* of the input line the record answers.
respond(obj, n) ==
    /\ stdout' = Append(stdout, obj)
    /\ respFor' = Append(respFor, n)

NoLine == RawLine("", "", FALSE, "", "", "", <<>>)

Init ==
    /\ environ \in {<<>>, (SOCKET_VAR :> ""), (SOCKET_VAR :> "/tmp/idb.sock")}
    /\ pc = "start"
    /\ channel = "none"
    /\ stdout = <<>>
    /\ line = NoLine
    /\ msgs = <<>>
    /\ ncalls = 0
    /\ result = "none"
    /\ nread = 0
    /\ nonEmpty = <<>>
    /\ respFor = <<>>
    /\ callFor = 0
    /\ repeated = FALSE

\* The return of line 30 left out: after the failure record main() goes on.
Startup_NoReturn ==
    /\ pc = "start"
    /\ LET sock_path == environ_get(environ, SOCKET_VAR)
       IN  IF ~Truthy(sock_path)
           THEN /\ stdout' = stdout \o <<Failure("IDB_COMPANION_SOCKET not set"), Ready>>
                /\ respFor' = respFor \o <<0, 0>>
                /\ channel' = "open"
                /\ pc' = "readline"
           ELSE /\ channel' = "open"
                /\ respond(Ready, 0)
                /\ pc' = "readline"
    /\ UNCHANGED <<environ, line, msgs, ncalls, result, nread, nonEmpty,
                   callFor, repeated>>

\* Lines 27-57: from the start of main() to the first await of readline().
Startup ==
    /\ pc = "start"
    /\ LET sock_path == environ_get(environ, SOCKET_VAR)
       IN  IF ~Truthy(sock_path)
           THEN /\ respond(Failure("IDB_COMPANION_SOCKET not set"), 0)
                /\ pc' = "returned"
                /\ UNCHANGED channel
           ELSE /\ channel' = "open"
                /\ respond(Ready, 0)
                /\ pc' = "readline"
    /\ UNCHANGED <<environ, line, msgs, ncalls, result, nread, nonEmpty,
                   callFor, repeated>>

\* A raw line is empty when it decodes to nothing but whitespace.
IsBlank(raw) == ~decode_raises(raw) /\ strip(decode(raw)) = ""

\* Lines 60-97: readline() returns the line raw; the loop body runs until it
\* suspends in stub.hid(), comes back to readline(), or an exception leaves
\* main().
ReadLine(raw) ==
    /\ pc = "readline"
    /\ nread < MaxLines
    /\ nread' = nread + 1
    /\ line' = raw
    /\ repeated' = (nread >= 1 /\ raw = line)
    /\ nonEmpty' = IF IsBlank(raw) THEN nonEmpty ELSE Append(nonEmpty, nread + 1)
    /\ IF decode_raises(raw)
       THEN \* line 63 is outside both try blocks
            /\ pc' = "raised"
            /\ UNCHANGED <<stdout, respFor, msgs, ncalls, result, callFor>>
       ELSE IF strip(decode(raw)) = ""
       THEN \* continue
            /\ pc' = "readline"
            /\ UNCHANGED <<stdout, respFor, msgs, ncalls, result, callFor>>
       ELSE LET cmd == json_loads(raw)
            IN  IF cmd.exc = "JSONDecodeError"
                THEN /\ respond(Failure("bad json: " \o cmd.diag), nread + 1)
                     /\ pc' = "readline"
                     /\ UNCHANGED <<msgs, ncalls, result, callFor>>
                ELSE IF cmd.exc # ""
                THEN \* not a JSONDecodeError: not caught at line 69
                     /\ pc' = "raised"
                     /\ UNCHANGED <<stdout, respFor, msgs, ncalls, result, callFor>>
                ELSE LET r == Dispatch(cmd)
                     IN  IF r.kind = "call"
                         THEN /\ msgs' = r.msgs
                              /\ ncalls' = ncalls + 1
                              /\ result' = "pending"
                              /\ callFor' = nread + 1
                              /\ pc' = "hid"
                              /\ UNCHANGED <<stdout, respFor>>
                         ELSE /\ respond(Failure(r.error), nread + 1)
                              /\ pc' = "readline"
                              /\ UNCHANGED <<msgs, ncalls, result, callFor>>
    /\ UNCHANGED <<environ, channel>>

\* Lines 61-62 and 99: readline() returns b"" at end of stream.
EndOfStream ==
    /\ pc = "readline"
    /\ channel' = "closed"
    /\ pc' = "returned"
    /\ UNCHANGED <<environ, stdout, line, msgs, ncalls, result, nread, nonEmpty,
                   respFor, callFor, repeated>>

\* Line 95: the awaited stub.hid(msgs) returns.
HidReturns ==
    /\ pc = "hid"
    /\ result' = "returned"
    /\ respond(Ok, nread)
    /\ pc' = "readline"
    /\ UNCHANGED <<environ, channel, line, msgs, ncalls, nread, nonEmpty,
                   callFor, repeated>>

\* A failed call closes the channel.
HidRaises_Closes(e) ==
    /\ pc = "hid"
    /\ result' = "raised"
    /\ respond(Failure(e), nread)
    /\ channel' = "closed"
    /\ pc' = "readline"
    /\ UNCHANGED <<environ, line, msgs, ncalls, nread, nonEmpty, callFor,
                   repeated>>

\* The error of a failed call is swallowed and the line answered as a success.
HidRaises_WritesOk(e) ==
    /\ pc = "hid"
    /\ result' = "raised"
    /\ respond(Ok, nread)
    /\ pc' = "readline"
    /\ UNCHANGED <<environ, channel, line, msgs, ncalls, nread, nonEmpty,
                   callFor, repeated>>

\* A failed call is reattempted once before it is reported.
HidRaises_Retry(e) ==
    /\ pc = "hid"
    /\ IF ncalls <= nread
       THEN /\ ncalls' = ncalls + 1
            /\ result' = "pending"
            /\ pc' = "hid"
            /\ UNCHANGED <<stdout, respFor>>
       ELSE /\ ncalls' = ncalls
            /\ result' = "raised"
            /\ respond(Failure(e), nread)
            /\ pc' = "readline"
    /\ UNCHANGED <<environ, channel, line, msgs, nread, nonEmpty, callFor,
                   repeated>>

\* Lines 96-97: the awaited stub.hid(msgs) raises an Exception e.
HidRaises(e) ==
    /\ pc = "hid"
    /\ result' = "raised"
    /\ respond(Failure(e), nread)
    /\ pc' = "readline"
    /\ UNCHANGED <<environ, channel, line, msgs, ncalls, nread, nonEmpty,
                   callFor, repeated>>

Next ==
    \/ Startup
    \/ \E raw \in Lines : ReadLine(raw)
    \/ EndOfStream
    \/ HidReturns
    \/ \E e \in RemoteErrors : HidRaises(e)

Spec == Init /\ [][Next]_vars

\* The scheduling the event loop and the environment provide: main() is
\* started, every awaited remote call completes, and the input stream ends.
FairSpec ==
    /\ Spec
    /\ WF_vars(Startup)
    /\ WF_vars(HidReturns \/ \E e \in RemoteErrors : HidRaises(e))
    /\ WF_vars(EndOfStream)

TypeOK ==
    /\ pc \in {"start", "readline", "hid", "returned", "raised"}
    /\ channel \in {"none", "open", "closed"}
    /\ nread \in 0..MaxLines
    /\ result \in {"none", "pending", "returned", "raised"}
    /\ ncalls \in 0..nread
    /\ callFor \in 0..nread
    /\ repeated \in BOOLEAN
    /\ \A l \in Lines : l.exc = "JSONDecodeError" => ~l.wf
    /\ Len(stdout) = Len(respFor)

-----------------------------------------------------------------------------
\* Vocabulary of the properties.

StartsWith(s, p) == Len(s) >= Len(p) /\ SubSeq(s, 1, Len(p)) = p

\* The socket path counts as set when the test of line 28 lets main() go on.
SocketSet == SOCKET_VAR \in DOMAIN environ /\ environ[SOCKET_VAR] # ""
SocketAbsent == SOCKET_VAR \notin DOMAIN environ

\* This step consumed the input line line'.
ReadStep == pc = "readline" /\ nread' = nread + 1

\* json.loads returned a value for raw / returned a dict.
Parsed(raw) == ~decode_raises(raw) /\ ~IsBlank(raw) /\ raw.exc = ""
IsRecord(raw) == Parsed(raw) /\ raw.pytype = "dict"

\* raw is a record of type t whose x and y are the numbers x and y.
IsPress(raw, t, x, y) ==
    /\ IsRecord(raw)
    /\ {"type", "x", "y"} \subseteq DOMAIN raw.d
    /\ raw.d["type"] = Str(t) /\ raw.d["x"] = Num(x) /\ raw.d["y"] = Num(y)

\* raw is a swipe record with numeric coordinates and, when present, a
\* numeric duration.
IsSwipe(raw) ==
    /\ IsRecord(raw)
    /\ {"type", "x1", "y1", "x2", "y2"} \subseteq DOMAIN raw.d
    /\ raw.d["type"] = Str("swipe")
    /\ \A k \in {"x1", "y1", "x2", "y2"} : IsNum(raw.d[k])
    /\ "duration" \in DOMAIN raw.d => IsNum(raw.d["duration"])

\* The text of raw is non-empty and is not valid JSON.
NotJson(raw) == ~decode_raises(raw) /\ ~IsBlank(raw) /\ ~raw.wf

\* raw parsed to a record whose type is absent or not a recognized one.
UnknownTypeRecord(raw) ==
    /\ IsRecord(raw)
    /\ cmd_get(raw.d, "type", None) \notin {Str(t) : t \in KnownTypes}

\* Servicing raw raises an error before any remote call is made.
ServiceRaises(raw) ==
    \/ decode_raises(raw)
    \/ /\ ~IsBlank(raw)
       /\ \/ raw.exc # ""
          \/ raw.pytype # "dict"
          \/ cmd_get(raw.d, "type", None) \notin {Str(t) : t \in KnownTypes}
          \/ \E k \in ReadKeys(raw.d) \ {"duration"} : k \notin DOMAIN raw.d
          \/ \E k \in ReadKeys(raw.d) \cap DOMAIN raw.d : ~IsNum(raw.d[k])

LastOut == stdout[Len(stdout)]

\* The step appended exactly one failure record to stdout.
OneFailureWritten ==
    /\ Len(stdout') = Len(stdout) + 1
    /\ SubSeq(stdout', 1, Len(stdout)) = stdout
    /\ stdout'[Len(stdout')].ok = FALSE
    /\ DOMAIN stdout'[Len(stdout')] = {"ok", "error"}

-----------------------------------------------------------------------------
\* C1: with the socket path set, whenever the bridge is not inside a remote
\* call (waiting for a line, or stopped), the records after the ready record
\* are exactly one per non-empty line consumed, the i-th answering the i-th
\* non-empty line.
C1_OneResponsePerLine ==
    (SocketSet /\ pc \in {"readline", "returned", "raised"})
        => respFor = <<0>> \o nonEmpty

\* C2: every line whose servicing raises an error yields one failure record
\* and leaves the bridge waiting for the next line; a remote call that raises
\* does the same; and the loop is left only at end of stream, never because
\* of a line.
C2_EveryErrorCaught ==
    [][/\ (ReadStep /\ ServiceRaises(line'))
           => (pc' = "readline" /\ OneFailureWritten)
       /\ (pc = "hid" /\ result' = "raised")
           => (pc' = "readline" /\ OneFailureWritten)
       /\ (pc \in {"readline", "hid"} /\ pc' \notin {"readline", "hid"})
           => (pc' = "returned" /\ nread' = nread)]_vars

\* C3: when the socket path is absent, once main() has run the output is the
\* single failure record "IDB_COMPANION_SOCKET not set", main() has returned,
\* no channel was opened, no line was consumed and no remote call was made.
C3_AbsentSocket ==
    (SocketAbsent /\ pc # "start")
        => /\ stdout = <<[ok |-> FALSE, error |-> "IDB_COMPANION_SOCKET not set"]>>
           /\ pc = "returned"
           /\ channel = "none"
           /\ nread = 0
           /\ ncalls = 0

C3_Witness == SocketAbsent /\ pc = "returned" /\ Len(stdout) = 1

\* C4: with the socket path set, nothing precedes the ready record: a line is
\* consumed or a remote call made only after it; it is the first record, and
\* no other record has a status field.
C4_ReadyFirst ==
    SocketSet
        => /\ (pc = "start" => (stdout = <<>> /\ nread = 0 /\ ncalls = 0))
           /\ (pc # "start"
                  => /\ Len(stdout) >= 1
                     /\ stdout[1] = [ok |-> TRUE, status |-> "ready"]
                     /\ \A i \in 2..Len(stdout) : "status" \notin DOMAIN stdout[i])

C4_Witness ==
    /\ SocketSet
    /\ nread = 2
    /\ ncalls = 2
    /\ Len(stdout) = 3
    /\ stdout[2] = [ok |-> TRUE]
    /\ stdout[3].ok = FALSE

\* C5: consuming a line that is empty or only whitespace writes nothing,
\* starts no remote call and leaves the bridge waiting for the next line; the
\* record written for a later line answers that later line.
C5_BlankLineSkipped ==
    [][(ReadStep /\ line'.enc = "utf8" /\ line'.text \in {"\n", " \t\n"})
           => /\ stdout' = stdout
              /\ respFor' = respFor
              /\ ncalls' = ncalls
              /\ msgs' = msgs
              /\ pc' = "readline"]_vars

C5_Witness ==
    /\ nread = 2
    /\ nonEmpty = <<2>>
    /\ line.text = "{}\n"
    /\ pc = "readline"
    /\ respFor = <<0, 2>>
    /\ Len(stdout) = 2

\* C6: consuming a valid tap (x, y) starts exactly one remote call whose
\* events are a DOWN press at (x, y) followed by an UP press at (x, y), and
\* writes nothing yet; when that call returns, the record written is the
\* plain success and no further call is made.
C6_Tap ==
    [][\A x \in Coords, y \in Coords :
          /\ (ReadStep /\ IsPress(line', "tap", x, y))
                 => /\ ncalls' = ncalls + 1
                    /\ msgs' = <<[kind |-> "press", x |-> x, y |-> y, direction |-> 0],
                                 [kind |-> "press", x |-> x, y |-> y, direction |-> 1]>>
                    /\ pc' = "hid"
                    /\ stdout' = stdout
          /\ (pc = "hid" /\ IsPress(line, "tap", x, y) /\ result' = "returned")
                 => /\ stdout' = Append(stdout, [ok |-> TRUE])
                    /\ ncalls' = ncalls
                    /\ msgs' = msgs]_vars

C6_Witness ==
    /\ IsPress(line, "tap", "0", "1")
    /\ result = "returned"
    /\ pc = "readline"
    /\ Len(msgs) = 2
    /\ LastOut = [ok |-> TRUE]

\* C7: consuming a valid down, move or up (x, y) starts exactly one remote
\* call with exactly one press event at (x, y), of direction DOWN for down
\* and move and UP for up, whatever was consumed before.
C7_DownMoveUp ==
    [][\A t \in {"down", "move", "up"}, x \in Coords, y \in Coords :
          (ReadStep /\ IsPress(line', t, x, y))
              => /\ ncalls' = ncalls + 1
                 /\ msgs' = <<[kind |-> "press", x |-> x, y |-> y,
                               direction |-> IF t = "up" THEN 1 ELSE 0]>>
                 /\ pc' = "hid"]_vars

\* A move served by the second remote call.
C7_Witness ==
    /\ nread = 2
    /\ ncalls = 2
    /\ IsPress(line, "move", "1", "0")
    /\ msgs = <<[kind |-> "press", x |-> "1", y |-> "0", direction |-> 0]>>
    /\ pc = "hid"

\* C8: consuming a valid swipe starts exactly one remote call with exactly
\* one swipe event from (x1, y1) to (x2, y2) whose duration is the supplied
\* one, or 0.3 when the record has no duration.
C8_Swipe ==
    [][(ReadStep /\ IsSwipe(line'))
           => /\ ncalls' = ncalls + 1
              /\ pc' = "hid"
              /\ Len(msgs') = 1
              /\ msgs'[1] = [kind |-> "swipe",
                             x1 |-> line'.d["x1"].s, y1 |-> line'.d["y1"].s,
                             x2 |-> line'.d["x2"].s, y2 |-> line'.d["y2"].s,
                             duration |-> IF "duration" \in DOMAIN line'.d
                                          THEN line'.d["duration"].s
                                          ELSE "0.3"]]_vars

\* A swipe with a supplied duration sent as the second remote call.
C8_Witness ==
    /\ nread = 2
    /\ ncalls = 2
    /\ IsSwipe(line)
    /\ "duration" \in DOMAIN line.d
    /\ msgs[1].duration = "0.5"
    /\ pc = "hid"

\* C9: consuming a non-empty line whose text is not valid JSON writes exactly
\* one failure record whose error begins with "bad json: ", starts no remote
\* call and leaves the bridge waiting for the next line.
C9_BadJson ==
    [][(ReadStep /\ NotJson(line'))
           => /\ OneFailureWritten
              /\ StartsWith(stdout'[Len(stdout')].error, "bad json: ")
              /\ ncalls' = ncalls
              /\ pc' = "readline"]_vars

\* C10: consuming a line that parsed to a record whose type is absent or not
\* one of tap, swipe, down, move, up writes exactly one failure record whose
\* error is "unknown type: " followed by the value, starts no remote call and
\* leaves the bridge waiting for the next line.
C10_UnknownType ==
    [][(ReadStep /\ UnknownTypeRecord(line'))
           => /\ OneFailureWritten
              /\ StartsWith(stdout'[Len(stdout')].error, "unknown type: ")
              /\ stdout'[Len(stdout')].error
                     = "unknown type: " \o
                           (IF "type" \notin DOMAIN line'.d \/ line'.d["type"].tag = "null"
                            THEN "None" ELSE line'.d["type"].s)
              /\ ncalls' = ncalls
              /\ pc' = "readline"]_vars

\* A record without a type, then "poke", both answered.
C10_Witness ==
    /\ nread = 2
    /\ pc = "readline"
    /\ ncalls = 0
    /\ Len(stdout) = 3
    /\ stdout[2] = [ok |-> FALSE, error |-> "unknown type: None"]
    /\ stdout[3] = [ok |-> FALSE, error |-> "unknown type: poke"]

-----------------------------------------------------------------------------
\* Vocabulary of the properties of the remote calls and of the channel.

\* Line number n has been consumed and was not empty / has been answered.
WasRead(n) == \E i \in 1..Len(nonEmpty) : nonEmpty[i] = n
Answered(n) == \E i \in 1..Len(respFor) : respFor[i] = n

\* raw decodes to a command that is sent: servicing it raises nothing.
Decoded(raw) == ~decode_raises(raw) /\ ~IsBlank(raw) /\ ~ServiceRaises(raw)

\* raw parsed to a record of a recognized type that lacks a required field.
LacksField(raw) ==
    /\ IsRecord(raw)
    /\ cmd_get(raw.d, "type", None) \in {Str(t) : t \in KnownTypes}
    /\ \E k \in ReadKeys(raw.d) \ {"duration"} : k \notin DOMAIN raw.d

\* The text of raw is valid JSON whose value is not an object.
NonObject(raw) ==
    ~decode_raises(raw) /\ ~IsBlank(raw) /\ raw.wf /\ raw.pytype # "dict"

\* This step is the awaited remote call returning / raising.
CallReturns == pc = "hid" /\ result' = "returned"
CallRaises == pc = "hid" /\ result' = "raised"

-----------------------------------------------------------------------------
\* C11: when the remote call of a command raises, exactly one failure record
\* with the error's text is written, the bridge waits for the next line and
\* the channel stays open; every remote call, also one after a failed call,
\* is started on the open channel.
C11_RemoteFailure ==
    [][/\ CallRaises
           => /\ OneFailureWritten
              /\ stdout'[Len(stdout')].error \in RemoteErrors
              /\ pc' = "readline"
              /\ channel = "open"
              /\ channel' = "open"
       /\ (ncalls' = ncalls + 1) => (channel = "open" /\ channel' = "open")]_vars

\* A command sent on the open channel after the call of the line before it
\* failed.
C11_Witness ==
    /\ nread = 2
    /\ ncalls = 2
    /\ pc = "hid"
    /\ channel = "open"
    /\ Len(stdout) = 2
    /\ stdout[2] = [ok |-> FALSE, error |-> "Connection refused"]

\* C12: once the bridge has stopped with the socket path set, the channel it
\* opened has been closed; a remote call is in flight only while the channel
\* is open; without a socket path no channel is ever opened.
C12_ChannelLifecycle ==
    /\ (SocketSet /\ pc \in {"returned", "raised"}) => channel = "closed"
    /\ pc = "hid" => channel = "open"
    /\ ~SocketSet => channel = "none"

\* C13: a remote call is in flight exactly while main() is suspended in it,
\* so at most one; no line is consumed and no new call started while a call
\* is in flight or a consumed line is still unanswered; the record of a line
\* that made a call is written by the step that completes the call; and a
\* plain success record is written only when the call returned.
C13_OneAtATime ==
    [][/\ (result = "pending") <=> (pc = "hid")
       /\ ReadStep => (result # "pending" /\ respFor = <<0>> \o nonEmpty)
       /\ (ncalls' = ncalls + 1) => (result # "pending" /\ result' = "pending")
       /\ (pc = "hid" /\ stdout' # stdout)
              => (result' \in {"returned", "raised"} /\ respFor' = Append(respFor, callFor))
       /\ (Len(stdout') = Len(stdout) + 1 /\ stdout'[Len(stdout')] = [ok |-> TRUE])
              => (pc = "hid" /\ result' = "returned")]_vars

\* Two commands served one after the other, the first call failed and the
\* second returned.
C13_Witness ==
    /\ nread = 2
    /\ ncalls = 2
    /\ pc = "readline"
    /\ respFor = <<0, 1, 2>>
    /\ stdout[2].ok = FALSE
    /\ stdout[3] = [ok |-> TRUE]

\* C14: a step starts at most one remote call and only by consuming a line,
\* so a line causes at most one call; a line that decodes to a command
\* starts exactly one, a tap with both its events in it; a call that raises
\* is answered with one failure record and not started again.
C14_NoRetry ==
    [][/\ ncalls' \in {ncalls, ncalls + 1}
       /\ (ncalls' = ncalls + 1) => (ReadStep /\ callFor' = nread')
       /\ (ReadStep /\ Decoded(line')) => ncalls' = ncalls + 1
       /\ (ReadStep /\ \E x \in Coords, y \in Coords : IsPress(line', "tap", x, y))
              => (ncalls' = ncalls + 1 /\ Len(msgs') = 2)
       /\ CallRaises
              => (ncalls' = ncalls /\ pc' = "readline" /\ OneFailureWritten)]_vars

\* A tap whose single call failed and was reported, the bridge waiting again.
C14_Witness ==
    /\ IsPress(line, "tap", "1", "0")
    /\ result = "raised"
    /\ ncalls = 1
    /\ Len(msgs) = 2
    /\ pc = "readline"
    /\ LastOut = [ok |-> FALSE, error |-> "Connection refused"]

\* C15: consuming a record of a recognized type that lacks a required field
\* writes exactly one failure record and starts no remote call, sends no
\* event, and leaves the channel and the loop as they were.
C15_MissingField ==
    [][(ReadStep /\ LacksField(line'))
           => /\ OneFailureWritten
              /\ ncalls' = ncalls
              /\ msgs' = msgs
              /\ result' = result
              /\ channel' = channel
              /\ pc' = "readline"]_vars

\* A tap without y answered with a failure, then the next line sent.
C15_Witness ==
    /\ nread = 2
    /\ Len(stdout) = 2
    /\ stdout[2] = [ok |-> FALSE, error |-> "'y'"]
    /\ ncalls = 1
    /\ callFor = 2
    /\ channel = "open"
    /\ pc = "hid"

\* C16: when every remote call completes and the input ends, every non-empty
\* line consumed is eventually answered, and with the socket path set the
\* bridge eventually has returned with the channel closed.
C16_Liveness ==
    /\ \A n \in 1..MaxLines : WasRead(n) ~> Answered(n)
    /\ SocketSet ~> (pc = "returned" /\ channel = "closed")

\* C17: a line consumed right after an identical line is handled as that
\* line was: the same events are sent, or the same record is written, or
\* both are skipped; the record written when a call completes depends only
\* on how the call ended; a down, move or up is sent whatever came before.
C17_Stateless ==
    [][/\ (ReadStep /\ nread >= 1 /\ line' = line /\ callFor = nread)
              => (pc' = "hid" /\ msgs' = msgs /\ stdout' = stdout)
       /\ (ReadStep /\ nread >= 1 /\ line' = line /\ callFor # nread)
              => /\ pc' = "readline"
                 /\ ncalls' = ncalls
                 /\ stdout' = IF respFor[Len(respFor)] = nread
                              THEN Append(stdout, stdout[Len(stdout)])
                              ELSE stdout
       /\ CallReturns => stdout' = Append(stdout, [ok |-> TRUE])
       /\ CallRaises
              => \E e \in RemoteErrors :
                     stdout' = Append(stdout, [ok |-> FALSE, error |-> e])
       /\ \A t \in {"down", "move", "up"}, x \in Coords, y \in Coords :
              (ReadStep /\ IsPress(line', t, x, y))
                  => (pc' = "hid" /\ Len(msgs') = 1)]_vars

\* An up, with no down before it, sent again after the call of an identical
\* up failed.
C17_Witness ==
    /\ repeated
    /\ nread = 2
    /\ Len(stdout) = 2
    /\ IsPress(line, "up", "0", "1")
    /\ stdout[2] = [ok |-> FALSE, error |-> "Connection refused"]
    /\ msgs = <<[kind |-> "press", x |-> "0", y |-> "1", direction |-> 1]>>
    /\ ncalls = 2
    /\ pc = "hid"

\* C18: consuming a non-empty line that is valid JSON but not an object
\* writes exactly one failure record whose error begins with neither
\* "bad json: " nor "unknown type: ", starts no remote call and leaves the
\* bridge waiting for the next line.
C18_NonObject ==
    [][(ReadStep /\ NonObject(line'))
           => /\ OneFailureWritten
              /\ ~StartsWith(stdout'[Len(stdout')].error, "bad json: ")
              /\ ~StartsWith(stdout'[Len(stdout')].error, "unknown type: ")
              /\ ncalls' = ncalls
              /\ pc' = "readline"]_vars

====
